---------------------------- MODULE Spec2Model ----------------------------
(***************************************************************************)
(* pyfreesurfer/info.py: the package metadata module.                      *)
(*                                                                         *)
(* The module is a straight-line sequence of 30 assignment statements.     *)
(* Loading it executes them top to bottom, each binding one name of the    *)
(* module namespace.  The model is that load: pc is the next statement,    *)
(* ns the namespace.  Right-hand sides come in three forms: a literal, a   *)
(* read of a name bound earlier, and the call "{0}.{1}.{2}".format(...).   *)
(*                                                                         *)
(* Python strings are modelled as sequences of one-character strings, so   *)
(* that formatting, concatenation and pattern matching are computed.       *)
(*                                                                         *)
(* The three integer literals of lines 11-13 are a parameter of the load   *)
(* (declared): the shipped file has <<1, 1, 0>>, and the properties of     *)
(* the composed version string are stated for every non-negative triple.   *)
(***************************************************************************)
EXTENDS Integers, Sequences, FiniteSets, TLC

\* largest value tried for a version component (two-digit values included)
MaxVersion == 10

VARIABLES
  declared,  \* the integer literals of lines 11, 12, 13
  pc,        \* index in Program of the next statement to execute
  ns,        \* the module namespace: name -> value
  nbind      \* how many times each name has been bound so far

vars == <<declared, pc, ns, nbind>>

---------------------------------------------------------------------------
\* Python values, tagged with their type

IntVal(i) == [t |-> "int", v |-> i]

StrVal(s) == [t |-> "str", v |-> s]

ListVal(l) == [t |-> "list", v |-> l]

BoolVal(b) == [t |-> "bool", v |-> b]

DictVal == [t |-> "dict", v |-> <<>>]

\* a name the load has not bound yet
Unbound == [t |-> "unbound", v |-> <<>>]

---------------------------------------------------------------------------
\* the three forms of right-hand side, and the assignment statement

Lit(val) == [k |-> "lit", val |-> val, id |-> "", tmpl |-> <<>>, args |-> <<>>]

Name(id) == [k |-> "name", val |-> Unbound, id |-> id, tmpl |-> <<>>, args |-> <<>>]

FormatCall(tmpl, args) ==
  [k |-> "format", val |-> Unbound, id |-> "", tmpl |-> tmpl, args |-> args]

Assign(target, rhs) == [target |-> target, rhs |-> rhs]

---------------------------------------------------------------------------
\* str(int) and str.format, computed character by character

DigitChars == <<"0", "1", "2", "3", "4", "5", "6", "7", "8", "9">>

DigitValue(c) == (CHOOSE d \in 1..Len(DigitChars) : DigitChars[d] = c) - 1

\* str(n) for an int: decimal digits, most significant first, "-" if negative
RECURSIVE IntToStr(_)
IntToStr(n) ==
  IF n < 0 THEN <<"-">> \o IntToStr(-n)
  ELSE IF n < Len(DigitChars) THEN <<DigitChars[n + 1]>>
  ELSE IntToStr(n \div Len(DigitChars)) \o <<DigitChars[(n % Len(DigitChars)) + 1]>>

\* int(s) for a string of decimal digits (the index inside a replacement field)
RECURSIVE StrToNat(_)
StrToNat(s) ==
  IF Len(s) = 0 THEN 0
  ELSE StrToNat(SubSeq(s, 1, Len(s) - 1)) * Len(DigitChars) + DigitValue(s[Len(s)])

\* str(x), as format applies it to an argument with no format spec
ToStr(x) == IF x.t = "int" THEN IntToStr(x.v) ELSE x.v

\* the position of the first "}" of t at or after i
RECURSIVE FieldEnd(_, _)
FieldEnd(t, i) == IF t[i] = "}" THEN i ELSE FieldEnd(t, i + 1)

\* tmpl.format(*args) from position i on: literal text is copied, a
\* replacement field {n} is replaced by str(args[n]) (args is 1-based here)
RECURSIVE FormatFrom(_, _, _)
FormatFrom(t, i, args) ==
  IF i > Len(t) THEN <<>>
  ELSE IF t[i] = "{"
       THEN LET j == FieldEnd(t, i + 1)
                n == StrToNat(SubSeq(t, i + 1, j - 1))
            IN  ToStr(args[n + 1]) \o FormatFrom(t, j + 1, args)
       ELSE <<t[i]>> \o FormatFrom(t, i + 1, args)

Format(tmpl, args) == StrVal(FormatFrom(tmpl, 1, args))

---------------------------------------------------------------------------
\* the statements of info.py

\* the names the module binds
Names ==
  {"version_major",
   "version_minor",
   "version_micro",
   "__version__",
   "DEFAULT_FREESURFER_PATH",
   "DEFAULT_FSL_PATH",
   "DEFAULT_WORKBENCH_PATH",
   "DEFAULT_TEMPLATE_SYM_PATH",
   "FREESURFER_RELEASE",
   "CLASSIFIERS",
   "description",
   "long_description",
   "NAME",
   "ORGANISATION",
   "MAINTAINER",
   "MAINTAINER_EMAIL",
   "DESCRIPTION",
   "LONG_DESCRIPTION",
   "URL",
   "DOWNLOAD_URL",
   "LICENSE",
   "AUTHOR",
   "AUTHOR_EMAIL",
   "PLATFORMS",
   "ISRELEASE",
   "VERSION",
   "PROVIDES",
   "REQUIRES",
   "EXTRA_REQUIRES"}

\* info.py:11   version_major = 1
Stmt_version_major ==
  Assign("version_major",
    Lit(IntVal(declared[1])))

\* info.py:12   version_minor = 1
Stmt_version_minor ==
  Assign("version_minor",
    Lit(IntVal(declared[2])))

\* info.py:13   version_micro = 0
Stmt_version_micro ==
  Assign("version_micro",
    Lit(IntVal(declared[3])))

\* line 16 with the copy-paste slip of passing version_minor twice
Stmt___version___minor_twice ==
  Assign("__version__",
    FormatCall(<<"{", "0", "}", ".", "{", "1", "}", ".", "{", "2", "}">>,
               <<"version_major", "version_minor", "version_minor">>))

\* info.py:16   __version__ = '{0}.{1}.{2}'.format(version_major, version_minor, version_micro)
Stmt___version__ ==
  Assign("__version__",
    FormatCall(<<"{", "0", "}", ".", "{", "1", "}", ".", "{", "2", "}">>,
               <<"version_major", "version_minor", "version_micro">>))

\* info.py:19   DEFAULT_FREESURFER_PATH = '/i2bm/local/freesurfer/SetUpFreeSurfer.sh'
Stmt_DEFAULT_FREESURFER_PATH ==
  Assign("DEFAULT_FREESURFER_PATH",
    Lit(StrVal(<<"/", "i", "2", "b", "m", "/", "l", "o", "c", "a", "l", "/",
               "f", "r", "e", "e", "s", "u", "r", "f", "e", "r", "/", "S",
               "e", "t", "U", "p", "F", "r", "e", "e", "S", "u", "r", "f",
               "e", "r", ".", "s", "h">>)))

\* line 20 naming the FSL configuration directory instead of its script
Stmt_DEFAULT_FSL_PATH_directory ==
  Assign("DEFAULT_FSL_PATH",
    Lit(StrVal(<<"/", "e", "t", "c", "/", "f", "s", "l", "/", "5", ".", "0">>)))

\* info.py:20   DEFAULT_FSL_PATH = '/etc/fsl/5.0/fsl.sh'
Stmt_DEFAULT_FSL_PATH ==
  Assign("DEFAULT_FSL_PATH",
    Lit(StrVal(<<"/", "e", "t", "c", "/", "f", "s", "l", "/", "5", ".", "0",
               "/", "f", "s", "l", ".", "s", "h">>)))

\* line 21 with the default left empty
Stmt_DEFAULT_WORKBENCH_PATH_empty ==
  Assign("DEFAULT_WORKBENCH_PATH", Lit(StrVal(<<>>)))

\* info.py:21   DEFAULT_WORKBENCH_PATH = '/usr/bin'
Stmt_DEFAULT_WORKBENCH_PATH ==
  Assign("DEFAULT_WORKBENCH_PATH",
    Lit(StrVal(<<"/", "u", "s", "r", "/", "b", "i", "n">>)))

\* info.py:22   DEFAULT_TEMPLATE_SYM_PATH = '/i2bm/local/freesurfer/subjects/fsaverage_sym'
Stmt_DEFAULT_TEMPLATE_SYM_PATH ==
  Assign("DEFAULT_TEMPLATE_SYM_PATH",
    Lit(StrVal(<<"/", "i", "2", "b", "m", "/", "l", "o", "c", "a", "l", "/",
               "f", "r", "e", "e", "s", "u", "r", "f", "e", "r", "/", "s",
               "u", "b", "j", "e", "c", "t", "s", "/", "f", "s", "a", "v",
               "e", "r", "a", "g", "e", "_", "s", "y", "m">>)))

\* line 25 deriving the supported release from the package version
Stmt_FREESURFER_RELEASE_derived ==
  Assign("FREESURFER_RELEASE", Name("__version__"))

\* info.py:25   FREESURFER_RELEASE = '5.3.0'
Stmt_FREESURFER_RELEASE ==
  Assign("FREESURFER_RELEASE",
    Lit(StrVal(<<"5", ".", "3", ".", "0">>)))

\* info.py:28-34   CLASSIFIERS = ['Development Status :: 5 - Production/Stable', ...
Stmt_CLASSIFIERS ==
  Assign("CLASSIFIERS",
    Lit(ListVal(<<
       StrVal(<<"D", "e", "v", "e", "l", "o", "p", "m", "e", "n", "t", " ",
                "S", "t", "a", "t", "u", "s", " ", ":", ":", " ", "5", " ",
                "-", " ", "P", "r", "o", "d", "u", "c", "t", "i", "o", "n",
                "/", "S", "t", "a", "b", "l", "e">>),
       StrVal(<<"E", "n", "v", "i", "r", "o", "n", "m", "e", "n", "t", " ",
                ":", ":", " ", "C", "o", "n", "s", "o", "l", "e">>),
       StrVal(<<"E", "n", "v", "i", "r", "o", "n", "m", "e", "n", "t", " ",
                ":", ":", " ", "X", "1", "1", " ", "A", "p", "p", "l", "i",
                "c", "a", "t", "i", "o", "n", "s", " ", ":", ":", " ", "Q",
                "t">>),
       StrVal(<<"O", "p", "e", "r", "a", "t", "i", "n", "g", " ", "S", "y",
                "s", "t", "e", "m", " ", ":", ":", " ", "O", "S", " ", "I",
                "n", "d", "e", "p", "e", "n", "d", "e", "n", "t">>),
       StrVal(<<"P", "r", "o", "g", "r", "a", "m", "m", "i", "n", "g", " ",
                "L", "a", "n", "g", "u", "a", "g", "e", " ", ":", ":", " ",
                "P", "y", "t", "h", "o", "n">>),
       StrVal(<<"T", "o", "p", "i", "c", " ", ":", ":", " ", "S", "c", "i",
                "e", "n", "t", "i", "f", "i", "c", "/", "E", "n", "g", "i",
                "n", "e", "e", "r", "i", "n", "g">>),
       StrVal(<<"T", "o", "p", "i", "c", " ", ":", ":", " ", "U", "t", "i",
                "l", "i", "t", "i", "e", "s">>)>>)))

\* info.py:37-50   description = ''' ...
Stmt_description ==
  Assign("description",
    Lit(StrVal(<<"\n", "[", "p", "y", "F", "r", "e", "e", "S", "u", "r", "f",
               "e", "r", "]", "\n", "T", "h", "i", "s", " ", "p", "a", "c",
               "k", "a", "g", "e", " ", "p", "r", "o", "v", "i", "d", "e",
               "s", " ", "c", "o", "m", "m", "o", "n", " ", "s", "c", "r",
               "i", "p", "t", "s", ":", "\n", "\n", "*", " ", "p", "y",
               "f", "r", "e", "e", "s", "u", "r", "f", "e", "r", "_", "r",
               "e", "c", "o", "n", "a", "l", "l", ":", " ", "F", "r", "e",
               "e", "S", "u", "r", "f", "e", "r", " ", "c", "o", "r", "t",
               "i", "c", "a", "l", " ", "a", "n", "d", " ", "s", "u", "b",
               "c", "o", "r", "t", "i", "c", "a", "l", " ", "s", "e", "g",
               "m", "e", "n", "t", "a", "t", "i", "o", "n", ".", "\n", "*",
               " ", "p", "y", "f", "r", "e", "e", "s", "u", "r", "f", "e",
               "r", "_", "d", "a", "t", "a", "c", "h", "e", "c", "k", ":",
               " ", "c", "h", "e", "c", "k", " ", "F", "r", "e", "e", "S",
               "u", "r", "f", "e", "r", " ", "'", "r", "e", "c", "o", "n",
               "a", "l", "l", "'", " ", "p", "r", "o", "d", "u", "c", "e",
               "d", " ", "d", "a", "t", "a", " ", "i", "n", "t", "e", "g",
               "r", "i", "t", "y", ".", "\n", "*", " ", "p", "y", "f", "r",
               "e", "e", "s", "u", "r", "f", "e", "r", "_", "c", "o", "n",
               "v", "e", "r", "s", "i", "o", "n", ":", " ", " ", "c", "o",
               "n", "v", "e", "r", "t", " ", "F", "r", "e", "e", "S", "u",
               "r", "f", "e", "r", " ", "v", "o", "l", "u", "m", "e", ",",
               " ", "m", "e", "s", "h", " ", ",", " ", "a", "n", "n", "o",
               "t", "a", "t", "i", "o", "n", "s", "\n", " ", " ", "t", "o",
               " ", "t", "h", "e", " ", "n", "a", "t", "i", "v", "e", " ",
               "s", "p", "a", "c", "e", ".", " ", "T", "h", "e", " ", "p",
               "r", "o", "d", "u", "c", "e", "d", " ", "m", "e", "s", "h",
               "e", "s", " ", "w", "i", "l", "l", " ", "a", "l", "s", "o",
               " ", "b", "e", " ", "a", "l", "i", "g", "n", "e", "d", " ",
               "a", "c", "r", "o", "s", "s", "\n", " ", " ", "s", "u", "b",
               "j", "e", "c", "t", "s", ".", "\n", "*", " ", "p", "y", "f",
               "r", "e", "e", "s", "u", "r", "f", "e", "r", "_", "q", "u",
               "a", "l", "i", "t", "y", "c", "h", "e", "c", "k", ":", " ",
               "c", "h", "e", "c", "k", " ", "F", "r", "e", "e", "S", "u",
               "r", "f", "e", "r", " ", "'", "r", "e", "c", "o", "n", "a",
               "l", "l", "'", " ", "p", "r", "o", "d", "u", "c", "e", "d",
               " ", "d", "a", "t", "a", " ", "q", "u", "a", "l", "i", "t",
               "y", ".", "\n", "*", " ", "p", "y", "f", "r", "e", "e", "s",
               "u", "r", "f", "e", "r", "_", "s", "t", "a", "t", "s", ":",
               " ", "s", "u", "m", "m", "a", "r", "i", "z", "e", " ", "t",
               "h", "e", " ", "F", "r", "e", "e", "S", "u", "r", "f", "e",
               "r", " ", "'", "r", "e", "c", "o", "n", "a", "l", "l", "'",
               " ", "i", "n", "d", "i", "v", "i", "d", "u", "a", "l", "\n",
               " ", " ", "s", "t", "a", "t", "i", "s", "t", "i", "c", "s",
               ".", "\n", "*", " ", "p", "y", "f", "r", "e", "e", "s", "u",
               "r", "f", "e", "r", "_", "t", "e", "x", "t", "u", "r", "e",
               "s", ":", " ", "b", "u", "i", "l", "d", " ", "t", "e", "x",
               "t", "u", "r", "e", " ", "a", "r", "r", "a", "y", "s", " ",
               "a", "l", "i", "g", "n", "e", "d", " ", "a", "c", "r", "o",
               "s", "s", " ", "s", "u", "b", "j", "e", "c", "t", "s", ".",
               "\n">>)))

\* info.py:51-59   long_description = ''' ...
Stmt_long_description ==
  Assign("long_description",
    Lit(StrVal(<<"\n", "=", "=", "=", "=", "=", "=", "=", "=", "=", "=", "=",
               "=", "=", "=", "=", "=", "=", "=", "=", "=", "=", "=", "\n",
               "p", "y", "F", "r", "e", "e", "S", "u", "r", "f", "e", "r",
               "\n", "=", "=", "=", "=", "=", "=", "=", "=", "=", "=", "=",
               "=", "=", "=", "=", "=", "=", "=", "=", "=", "=", "=", "\n",
               "\n", "P", "y", "t", "h", "o", "n", " ", "w", "r", "a", "p",
               "p", "e", "r", "s", " ", "f", "o", "r", " ", "F", "r", "e",
               "e", "S", "u", "r", "f", "e", "r", ":", " ", "w", "r", "a",
               "p", " ", "t", "h", "e", " ", "F", "r", "e", "e", "S", "u",
               "r", "f", "e", "r", " ", "s", "o", "f", "t", "w", "a", "r",
               "e", " ", "a", "n", "d", " ", "s", "i", "m", "p", "l", "i",
               "f", "y", "\n", "s", "c", "r", "i", "p", "t", "i", "n", "g",
               " ", "c", "a", "l", "l", "s", ".", " ", "S", "u", "c", "h",
               " ", "c", "a", "l", "l", "s", " ", "c", "a", "n", " ", "b",
               "e", " ", "p", "e", "r", "f", "o", "r", "m", "e", "d", " ",
               "t", "h", "r", "o", "u", "g", "h", " ", "t", "h", "e", " ",
               "u", "s", "e", " ", "o", "f", " ", "a", "\n", "d", "e", "d",
               "i", "c", "a", "t", "e", "d", " ", "f", "u", "n", "c", "t",
               "i", "o", "n", " ", "o", "f", " ", "t", "h", "e", " ", "p",
               "a", "c", "k", "a", "g", "e", ".", "\n">>)))

\* info.py:62   NAME = 'pyFreeSurfer'
Stmt_NAME ==
  Assign("NAME",
    Lit(StrVal(<<"p", "y", "F", "r", "e", "e", "S", "u", "r", "f", "e", "r">>)))

\* info.py:63   ORGANISATION = 'CEA'
Stmt_ORGANISATION ==
  Assign("ORGANISATION",
    Lit(StrVal(<<"C", "E", "A">>)))

\* info.py:64   MAINTAINER = 'Antoine Grigis'
Stmt_MAINTAINER ==
  Assign("MAINTAINER",
    Lit(StrVal(<<"A", "n", "t", "o", "i", "n", "e", " ", "G", "r", "i", "g",
               "i", "s">>)))

\* info.py:65   MAINTAINER_EMAIL = 'antoine.grigis@cea.fr'
Stmt_MAINTAINER_EMAIL ==
  Assign("MAINTAINER_EMAIL",
    Lit(StrVal(<<"a", "n", "t", "o", "i", "n", "e", ".", "g", "r", "i", "g",
               "i", "s", "@", "c", "e", "a", ".", "f", "r">>)))

\* line 66 reading long_description instead of description
Stmt_DESCRIPTION_long ==
  Assign("DESCRIPTION", Name("long_description"))

\* info.py:66   DESCRIPTION = description
Stmt_DESCRIPTION ==
  Assign("DESCRIPTION",
    Name("description"))

\* info.py:67   LONG_DESCRIPTION = long_description
Stmt_LONG_DESCRIPTION ==
  Assign("LONG_DESCRIPTION",
    Name("long_description"))

\* info.py:68   URL = 'https://github.com/neurospin/pyfreesurfer'
Stmt_URL ==
  Assign("URL",
    Lit(StrVal(<<"h", "t", "t", "p", "s", ":", "/", "/", "g", "i", "t", "h",
               "u", "b", ".", "c", "o", "m", "/", "n", "e", "u", "r", "o",
               "s", "p", "i", "n", "/", "p", "y", "f", "r", "e", "e", "s",
               "u", "r", "f", "e", "r">>)))

\* info.py:69   DOWNLOAD_URL = 'https://github.com/neurospin/pyfreesurfer'
Stmt_DOWNLOAD_URL ==
  Assign("DOWNLOAD_URL",
    Lit(StrVal(<<"h", "t", "t", "p", "s", ":", "/", "/", "g", "i", "t", "h",
               "u", "b", ".", "c", "o", "m", "/", "n", "e", "u", "r", "o",
               "s", "p", "i", "n", "/", "p", "y", "f", "r", "e", "e", "s",
               "u", "r", "f", "e", "r">>)))

\* info.py:70   LICENSE = 'CeCILL-B'
Stmt_LICENSE ==
  Assign("LICENSE",
    Lit(StrVal(<<"C", "e", "C", "I", "L", "L", "-", "B">>)))

\* info.py:71   CLASSIFIERS = CLASSIFIERS
Stmt_CLASSIFIERS_rebind ==
  Assign("CLASSIFIERS",
    Name("CLASSIFIERS"))

\* info.py:72   AUTHOR = 'pyFreeSurfer developers'
Stmt_AUTHOR ==
  Assign("AUTHOR",
    Lit(StrVal(<<"p", "y", "F", "r", "e", "e", "S", "u", "r", "f", "e", "r",
               " ", "d", "e", "v", "e", "l", "o", "p", "e", "r", "s">>)))

\* info.py:73   AUTHOR_EMAIL = 'antoine.grigis@cea.fr'
Stmt_AUTHOR_EMAIL ==
  Assign("AUTHOR_EMAIL",
    Lit(StrVal(<<"a", "n", "t", "o", "i", "n", "e", ".", "g", "r", "i", "g",
               "i", "s", "@", "c", "e", "a", ".", "f", "r">>)))

\* info.py:74   PLATFORMS = 'OS Independent'
Stmt_PLATFORMS ==
  Assign("PLATFORMS",
    Lit(StrVal(<<"O", "S", " ", "I", "n", "d", "e", "p", "e", "n", "d", "e",
               "n", "t">>)))

\* info.py:75   ISRELEASE = True
Stmt_ISRELEASE ==
  Assign("ISRELEASE",
    Lit(BoolVal(TRUE)))

\* line 76 reading the toolkit release instead of the package version
Stmt_VERSION_release ==
  Assign("VERSION", Name("FREESURFER_RELEASE"))

\* line 76 with target and source confused: __version__ is bound again
Stmt_VERSION_clobbers ==
  Assign("__version__", Name("FREESURFER_RELEASE"))

\* info.py:76   VERSION = __version__
Stmt_VERSION ==
  Assign("VERSION",
    Name("__version__"))

\* info.py:77   PROVIDES = ['pyfreesurfer']
Stmt_PROVIDES ==
  Assign("PROVIDES",
    Lit(ListVal(<<
       StrVal(<<"p", "y", "f", "r", "e", "e", "s", "u", "r", "f", "e", "r">>)>>)))

\* lines 78-82 with no entry
Stmt_REQUIRES_empty ==
  Assign("REQUIRES", Lit(ListVal(<<>>)))

\* lines 78-82 with the version constraint of nibabel left out
Stmt_REQUIRES_unversioned ==
  Assign("REQUIRES",
    Lit(ListVal(<<
       StrVal(<<"n", "u", "m", "p", "y", ">", "=", "1", ".", "6", ".", "1">>),
       StrVal(<<"n", "i", "b", "a", "b", "e", "l">>),
       StrVal(<<"m", "a", "t", "p", "l", "o", "t", "l", "i", "b", ">", "=", "1",
                ".", "3", ".", "1">>)>>)))

\* info.py:78-82   REQUIRES = [ ...
Stmt_REQUIRES ==
  Assign("REQUIRES",
    Lit(ListVal(<<
       StrVal(<<"n", "u", "m", "p", "y", ">", "=", "1", ".", "6", ".", "1">>),
       StrVal(<<"n", "i", "b", "a", "b", "e", "l", ">", "=", "1", ".", "1",
                ".", "0">>),
       StrVal(<<"m", "a", "t", "p", "l", "o", "t", "l", "i", "b", ">", "=",
                "1", ".", "3", ".", "1">>)>>)))

\* info.py:83   EXTRA_REQUIRES = {}
Stmt_EXTRA_REQUIRES ==
  Assign("EXTRA_REQUIRES",
    Lit(DictVal))

\* info.py:11-83   the statements of the module, in load order
Program ==
  <<Stmt_version_major,
    Stmt_version_minor,
    Stmt_version_micro,
    Stmt___version__,
    Stmt_DEFAULT_FREESURFER_PATH,
    Stmt_DEFAULT_FSL_PATH,
    Stmt_DEFAULT_WORKBENCH_PATH,
    Stmt_DEFAULT_TEMPLATE_SYM_PATH,
    Stmt_FREESURFER_RELEASE,
    Stmt_CLASSIFIERS,
    Stmt_description,
    Stmt_long_description,
    Stmt_NAME,
    Stmt_ORGANISATION,
    Stmt_MAINTAINER,
    Stmt_MAINTAINER_EMAIL,
    Stmt_DESCRIPTION,
    Stmt_LONG_DESCRIPTION,
    Stmt_URL,
    Stmt_DOWNLOAD_URL,
    Stmt_LICENSE,
    Stmt_CLASSIFIERS_rebind,
    Stmt_AUTHOR,
    Stmt_AUTHOR_EMAIL,
    Stmt_PLATFORMS,
    Stmt_ISRELEASE,
    Stmt_VERSION,
    Stmt_PROVIDES,
    Stmt_REQUIRES,
    Stmt_EXTRA_REQUIRES>>

---------------------------------------------------------------------------
\* the load

Done == Len(Program) + 1

\* binding a name: the namespace entry is replaced, everything else is kept
Bind(target, val) ==
  /\ ns' = [ns EXCEPT ![target] = val]
  /\ nbind' = [nbind EXCEPT ![target] = @ + 1]
  /\ pc' = pc + 1
  /\ UNCHANGED declared

Init ==
  /\ declared \in (0..MaxVersion) \X (0..MaxVersion) \X (0..MaxVersion)
  /\ pc = 1
  /\ ns = [n \in Names |-> Unbound]
  /\ nbind = [n \in Names |-> 0]

\* NAME = <literal>
ExecLiteral ==
  /\ pc < Done
  /\ Program[pc].rhs.k = "lit"
  /\ Bind(Program[pc].target, Program[pc].rhs.val)

\* NAME = other_name; reading a name that is not bound raises NameError and
\* the load stops there
ExecName ==
  /\ pc < Done
  /\ Program[pc].rhs.k = "name"
  /\ ns[Program[pc].rhs.id].t # "unbound"
  /\ Bind(Program[pc].target, ns[Program[pc].rhs.id])

\* NAME = "<template>".format(name, ...)
ExecFormat ==
  /\ pc < Done
  /\ Program[pc].rhs.k = "format"
  /\ \A i \in 1..Len(Program[pc].rhs.args) : ns[Program[pc].rhs.args[i]].t # "unbound"
  /\ Bind(Program[pc].target,
          Format(Program[pc].rhs.tmpl,
                 [i \in 1..Len(Program[pc].rhs.args) |-> ns[Program[pc].rhs.args[i]]]))

Next == ExecLiteral \/ ExecName \/ ExecFormat

Spec == Init /\ [][Next]_vars

Loaded == pc = Done

---------------------------------------------------------------------------
\* string predicates used to state the properties

\* the pieces of s between occurrences of the character sep
RECURSIVE Split(_, _)
Split(s, sep) ==
  IF \A i \in 1..Len(s) : s[i] # sep THEN <<s>>
  ELSE LET i == CHOOSE i \in 1..Len(s) :
                  s[i] = sep /\ \A j \in 1..(i - 1) : s[j] # sep
       IN  <<SubSeq(s, 1, i - 1)>> \o Split(SubSeq(s, i + 1, Len(s)), sep)

IsDigit(c) == \E d \in 1..Len(DigitChars) : DigitChars[d] = c

\* a non-empty run of decimal digits
AllDigits(s) == Len(s) > 0 /\ \A i \in 1..Len(s) : IsDigit(s[i])

\* three dot-separated non-negative decimal integers
IsDottedTriple(s) ==
  LET parts == Split(s, ".")
  IN  Len(parts) = 3 /\ \A i \in 1..Len(parts) : AllDigits(parts[i])

\* str(a) + "." + str(b) + "." + str(c)
Composed(a, b, c) ==
  IntToStr(a) \o <<".">> \o IntToStr(b) \o <<".">> \o IntToStr(c)

\* the last component of a path: what follows the last "/"
LastComponent(s) ==
  LET parts == Split(s, "/") IN parts[Len(parts)]

EndsWith(s, suffix) ==
  Len(s) >= Len(suffix) /\ SubSeq(s, Len(s) - Len(suffix) + 1, Len(s)) = suffix

\* a file name with the extension .sh
IsShellScriptPath(s) ==
  LET name == LastComponent(s)
  IN  Len(name) > Len(<<".", "s", "h">>) /\ EndsWith(name, <<".", "s", "h">>)

ComparisonChars == {"<", ">", "=", "!", "~"}

\* the length of the longest prefix of s whose characters satisfy: in (or not in) set
RECURSIVE PrefixLen(_, _, _)
PrefixLen(s, set, inside) ==
  IF Len(s) = 0 \/ ((s[1] \in set) # inside) THEN 0
  ELSE 1 + PrefixLen(Tail(s), set, inside)

\* name, comparison operator and version of a requirement string
RequirementParts(s) ==
  LET n == PrefixLen(s, ComparisonChars, FALSE)
      rest == SubSeq(s, n + 1, Len(s))
      m == PrefixLen(rest, ComparisonChars, TRUE)
  IN  [name |-> SubSeq(s, 1, n),
       op |-> SubSeq(rest, 1, m),
       version |-> SubSeq(rest, m + 1, Len(rest))]

IsVersionConstraint(e) ==
  /\ e.t = "str"
  /\ Len(RequirementParts(e.v).name) > 0
  /\ RequirementParts(e.v).op = <<">", "=">>
  /\ IsDottedTriple(RequirementParts(e.v).version)

PathNames ==
  {"DEFAULT_FREESURFER_PATH", "DEFAULT_FSL_PATH",
   "DEFAULT_WORKBENCH_PATH", "DEFAULT_TEMPLATE_SYM_PATH"}

IsBound(n) == nbind[n] > 0

---------------------------------------------------------------------------
\* C1: once __version__ is bound it is a string, exactly
\* str(version_major) + "." + str(version_minor) + "." + str(version_micro),
\* it is three dot-separated non-negative decimal integers, and for the
\* shipped components 1, 1, 0 it is "1.1.0".
C1_VersionComposed ==
  IsBound("__version__") =>
    /\ ns["__version__"].t = "str"
    /\ ns["__version__"].v = Composed(ns["version_major"].v,
                                      ns["version_minor"].v,
                                      ns["version_micro"].v)
    /\ IsDottedTriple(ns["__version__"].v)
    /\ declared = <<1, 1, 0>> => ns["__version__"].v = <<"1", ".", "1", ".", "0">>

\* a load with a two-digit component has composed its version string
C1_Witness ==
  /\ IsBound("__version__")
  /\ declared = <<10, 0, 7>>
  /\ ns["__version__"].v = <<"1", "0", ".", "0", ".", "7">>

\* C2: after the load REQUIRES is a list with at least one entry.
C2_RequiresNonEmpty ==
  Loaded => ns["REQUIRES"].t = "list" /\ Len(ns["REQUIRES"].v) > 0

\* the load has finished and REQUIRES holds its three entries
C2_Witness ==
  Loaded /\ IsBound("REQUIRES") /\ Len(ns["REQUIRES"].v) = 3

\* C3: every path constant, once bound, is a non-empty string.
C3_PathsNonEmpty ==
  \A p \in PathNames :
    IsBound(p) => ns[p].t = "str" /\ Len(ns[p].v) > 0

\* the load has finished with all four path constants bound
C3_Witness ==
  /\ Loaded
  /\ \A p \in PathNames : IsBound(p)
  /\ ns["DEFAULT_WORKBENCH_PATH"].v = <<"/", "u", "s", "r", "/", "b", "i", "n">>

\* C4 as stated: after the load the last component of every DEFAULT_*_PATH
\* constant is a file name ending in ".sh".
C4_AllPathsAreScripts ==
  Loaded => \A p \in PathNames : IsShellScriptPath(ns[p].v)

\* C4 amended: after the load DEFAULT_FREESURFER_PATH and DEFAULT_FSL_PATH
\* are paths of shell scripts (last component ends in ".sh"), while
\* DEFAULT_WORKBENCH_PATH and DEFAULT_TEMPLATE_SYM_PATH are not.
C4_SetupPathsAreScripts ==
  Loaded =>
    /\ IsShellScriptPath(ns["DEFAULT_FREESURFER_PATH"].v)
    /\ IsShellScriptPath(ns["DEFAULT_FSL_PATH"].v)
    /\ ~IsShellScriptPath(ns["DEFAULT_WORKBENCH_PATH"].v)
    /\ ~IsShellScriptPath(ns["DEFAULT_TEMPLATE_SYM_PATH"].v)

\* the load has finished; the FSL path ends in fsl.sh, the workbench path in bin
C4_Witness ==
  /\ Loaded
  /\ LastComponent(ns["DEFAULT_FSL_PATH"].v) = <<"f", "s", "l", ".", "s", "h">>
  /\ LastComponent(ns["DEFAULT_WORKBENCH_PATH"].v) = <<"b", "i", "n">>

\* C5: once REQUIRES is bound, every entry is a string made of a non-empty
\* library name, the operator ">=", and a version of three dot-separated
\* integers.
C5_RequiresAreConstraints ==
  IsBound("REQUIRES") =>
    \A i \in 1..Len(ns["REQUIRES"].v) : IsVersionConstraint(ns["REQUIRES"].v[i])

\* REQUIRES is bound and its second entry parses as nibabel >= 1.1.0
C5_Witness ==
  /\ IsBound("REQUIRES")
  /\ Len(ns["REQUIRES"].v) = 3
  /\ RequirementParts(ns["REQUIRES"].v[2].v) =
       [name |-> <<"n", "i", "b", "a", "b", "e", "l">>,
        op |-> <<">", "=">>,
        version |-> <<"1", ".", "1", ".", "0">>]

\* C6: no statement of the load changes the value of a name bound earlier
\* (a name bound again is bound to the value it already has), and the load
\* only moves forward.
C6_BoundValuesKept ==
  [][/\ \A n \in Names : IsBound(n) => ns'[n] = ns[n]
     /\ pc' = pc + 1]_vars

\* the load has finished, CLASSIFIERS was bound a second time, and the
\* version components and __version__ still hold their first values
C6_Witness ==
  /\ Loaded
  /\ nbind["CLASSIFIERS"] = 2
  /\ \A n \in Names \ {"CLASSIFIERS"} : nbind[n] = 1
  /\ ns["version_major"] = IntVal(declared[1])
  /\ ns["version_minor"] = IntVal(declared[2])
  /\ ns["version_micro"] = IntVal(declared[3])
  /\ ns["__version__"].v = Composed(declared[1], declared[2], declared[3])

\* C7: after the load VERSION equals __version__, which is the string
\* composed from version_major, version_minor and version_micro.
C7_VersionExposed ==
  Loaded =>
    /\ ns["VERSION"] = ns["__version__"]
    /\ ns["VERSION"].v = Composed(ns["version_major"].v,
                                  ns["version_minor"].v,
                                  ns["version_micro"].v)

\* the load has finished for components 3, 10, 2 and VERSION is "3.10.2"
C7_Witness ==
  /\ Loaded
  /\ declared = <<3, 10, 2>>
  /\ ns["VERSION"].v = <<"3", ".", "1", "0", ".", "2">>

\* C8: CLASSIFIERS, from its first binding on, is the seven-element list of
\* lines 28-34 in that order; after the load it has been bound twice, and
\* DESCRIPTION equals description and LONG_DESCRIPTION equals
\* long_description.
C8_SelfAssignmentKeeps ==
  /\ IsBound("CLASSIFIERS") =>
       /\ ns["CLASSIFIERS"] = Stmt_CLASSIFIERS.rhs.val
       /\ Len(ns["CLASSIFIERS"].v) = 7
  /\ Loaded =>
       /\ nbind["CLASSIFIERS"] = 2
       /\ ns["DESCRIPTION"] = ns["description"]
       /\ ns["LONG_DESCRIPTION"] = ns["long_description"]

\* the statement CLASSIFIERS = CLASSIFIERS has just been executed
C8_Witness ==
  /\ nbind["CLASSIFIERS"] = 2
  /\ ~IsBound("AUTHOR")
  /\ ns["CLASSIFIERS"].v[7].v[1] = "T"
  /\ ns["DESCRIPTION"].t = "str"

\* C9: once bound, FREESURFER_RELEASE is the string "5.3.0", three
\* dot-separated non-negative integers, whatever the package version
\* components are.
C9_ReleaseIndependent ==
  IsBound("FREESURFER_RELEASE") =>
    /\ ns["FREESURFER_RELEASE"].v = <<"5", ".", "3", ".", "0">>
    /\ IsDottedTriple(ns["FREESURFER_RELEASE"].v)

\* the load has finished for a package version other than 1.1.0 and other
\* than 5.3.0, and FREESURFER_RELEASE is "5.3.0"
C9_Witness ==
  /\ Loaded
  /\ declared = <<2, 0, 1>>
  /\ ns["__version__"].v = <<"2", ".", "0", ".", "1">>
  /\ ns["FREESURFER_RELEASE"].v = <<"5", ".", "3", ".", "0">>

=============================================================================
